---- MODULE Spec2Model ----
(***************************************************************************)
(* Model of the optidash-go request builder (type Request) and of its     *)
(* terminal operations ToJSON, ToReader, ToFile and CopyTo.                *)
(*                                                                         *)
(* One builder is followed at a time.  Every call of the public API is     *)
(* one atomic action; the record `last` describes the call that was made   *)
(* last: its arguments, what it returned, the request it transmitted and   *)
(* the resources it opened and closed.  The environment (the file system,  *)
(* the HTTP transport, the remote service) is chosen with \E.              *)
(***************************************************************************)
EXTENDS Integers, Sequences, FiniteSets, TLC

VARIABLES r, last, panicked

vars == <<r, last, panicked>>

(***************************************************************************)
(* Bounds                                                                  *)
(***************************************************************************)
\* at most this many steps of one builder hold a bag at the same time
MaxStepsSet == 1

(***************************************************************************)
(* Program constants                                                       *)
(***************************************************************************)
apiURL == "https://api.optidash.ai/1.0"

readerSource == 0
pathSource == 1
fetchSource == 2

\* the fields of Request that hold a parameter bag
StepNames ==
    {"optimize", "flip", "resize", "scale", "crop", "watermark", "mask",
     "stylize", "adjust", "auto", "border", "padding", "store", "output",
     "webhook", "response", "cdn"}

\* the steps that have a setter method (the field `response` has none)
SetterNames == StepNames \ {"response"}

\* encoding/json writes the keys of a map in sorted order
KeyOrder ==
    <<"adjust", "auto", "border", "cdn", "crop", "flip", "mask", "optimize",
      "output", "padding", "resize", "response", "scale", "store", "stylize",
      "url", "watermark", "webhook">>

(***************************************************************************)
(* Values                                                                  *)
(***************************************************************************)
NoKeys == [k \in {} |-> ""]

\* P is map[string]interface{}; a nil map is distinct from an empty one
NilP == [nil |-> TRUE, m |-> NoKeys]

MkP(m) == [nil |-> FALSE, m |-> m]

BagA == MkP([width |-> "100", height |-> "75"])

BagB == MkP([width |-> "200"])

\* the bags a caller passes to the setters
Bags == {BagA, BagB}

\* the bag ToReader stores in r.response
BinaryP == MkP([mode |-> "binary"])

\* inputs of the factories
Urls == {"https://a/1.jpg", "https://b/2.jpg"}

Paths == {"in.jpg"}

StreamBytes == "stream-bytes"

DiskBytes == "disk-bytes"

ImageBytes == "image-bytes"

ClientKey == "your-api-key"

\* errors: the sentinels of errors.go, *OptidashError, and the errors of the
\* libraries underneath
Err(kind) == [kind |-> kind, Code |-> 0, Message |-> ""]

NilErr == Err("nil")

ErrInvalidSourceType == Err("ErrInvalidSourceType")

ErrBinaryWebhook == Err("ErrBinaryWebhook")

ErrBinaryStorage == Err("ErrBinaryStorage")

ErrNoSuccess == Err("ErrNoSuccess")

OptidashError(code, message) ==
    [kind |-> "OptidashError", Code |-> code, Message |-> message]

(***************************************************************************)
(* JSON documents as fastjson sees them.  A scalar is [t, n, s]; a parsed  *)
(* document is a *fastjson.Value [t, o] whose o maps the keys of an object *)
(* to scalars.  A text is a string of bytes: raw tells the empty string    *)
(* from the others, ok tells whether it is well-formed JSON, v is the      *)
(* document it denotes.                                                    *)
(***************************************************************************)
JTrue == [t |-> "true", n |-> 0, s |-> ""]

JFalse == [t |-> "false", n |-> 0, s |-> ""]

JNum(n) == [t |-> "number", n |-> n, s |-> ""]

JStr(s) == [t |-> "string", n |-> 0, s |-> s]

NilValue == [t |-> "nil", o |-> NoKeys]

JNull == [t |-> "null", o |-> NoKeys]

JArray == [t |-> "array", o |-> NoKeys]

JObject(o) == [t |-> "object", o |-> o]

EmptyText == [raw |-> "", ok |-> FALSE, v |-> NilValue]

Garbage == [raw |-> "garbage", ok |-> FALSE, v |-> NilValue]

Image == [raw |-> ImageBytes, ok |-> FALSE, v |-> NilValue]

JsonText(v) == [raw |-> "json", ok |-> TRUE, v |-> v]

(***************************************************************************)
(* The builder                                                             *)
(***************************************************************************)
NoSteps == [s \in StepNames |-> NilP]

\* ptr: "none" before a factory was called, "nil" for a nil *Request
NoRequest ==
    [ptr |-> "none", source |-> readerSource, reader |-> "", location |-> "",
     steps |-> NoSteps]

NilRequest == [NoRequest EXCEPT !.ptr = "nil"]

NoWire ==
    [sent |-> FALSE, method |-> "", url |-> <<>>, contentType |-> "",
     binary |-> FALSE, user |-> "", password |-> "", parts |-> <<>>,
     json |-> <<>>]

NoResponse == [delivered |-> FALSE, header |-> EmptyText, body |-> EmptyText]

\* the record of a call: op and arguments, return values, and what the call
\* did to the transport and to the resources it touched
NoCall ==
    [op |-> "none", step |-> "", bag |-> NilP, old |-> NilP, input |-> "",
     ret |-> "", meta |-> NilValue, stream |-> "nil", err |-> NilErr,
     calls |-> 0, request |-> NoWire, resp |-> NoResponse,
     body |-> "none", inFile |-> "none", inFlag |-> "", outFile |-> "none",
     writer |-> "none", dest |-> ""]

Call(op) == [NoCall EXCEPT !.op = op]

SetCount(steps) == Cardinality({s \in SetterNames : ~steps[s].nil})

(***************************************************************************)
(* Factories (Client.Upload, Client.Fetch)                                 *)
(***************************************************************************)
\* what a caller can hand to Upload(input interface{})
Inputs ==
    {[type |-> "io.Reader", val |-> StreamBytes]}
        \cup {[type |-> "string", val |-> p] : p \in Paths}
        \cup {[type |-> "int", val |-> "42"]}

NewUpload(input) ==
    IF input.type = "io.Reader"
    THEN [ptr |-> "req", source |-> readerSource, reader |-> input.val,
          location |-> "", steps |-> NoSteps]
    ELSE IF input.type = "string"
    THEN [ptr |-> "req", source |-> pathSource, reader |-> "",
          location |-> input.val, steps |-> NoSteps]
    ELSE NilRequest

NewFetch(url) ==
    [ptr |-> "req", source |-> fetchSource, reader |-> "", location |-> url,
     steps |-> NoSteps]

Upload(input) ==
    /\ ~panicked
    /\ r' = NewUpload(input)
    /\ last' = [Call("Upload") EXCEPT
                    !.input = input.type,
                    !.ret = IF NewUpload(input).ptr = "nil" THEN "nil" ELSE "new"]
    /\ UNCHANGED panicked

Fetch(url) ==
    /\ ~panicked
    /\ r' = NewFetch(url)
    /\ last' = [Call("Fetch") EXCEPT !.input = "string", !.ret = "new"]
    /\ UNCHANGED panicked

\* a method that reads or writes a field of a nil *Request panics
Panic(op) ==
    /\ panicked' = TRUE
    /\ last' = Call(op)
    /\ UNCHANGED r

(***************************************************************************)
(* Step setters                                                            *)
(***************************************************************************)
SetStep(req, s, data) == [req EXCEPT !.steps[s] = data]

Setter(s, data) ==
    /\ ~panicked
    /\ r.ptr # "none"
    /\ IF r.ptr = "nil"
       THEN Panic("set")
       ELSE /\ SetCount(SetStep(r, s, data).steps) <= MaxStepsSet
            /\ r' = SetStep(r, s, data)
            /\ last' = [Call("set") EXCEPT
                            !.step = s, !.bag = data, !.old = r.steps[s],
                            !.ret = "self"]
            /\ UNCHANGED panicked

Optimize(data) == Setter("optimize", data)

Flip(data) == Setter("flip", data)

Resize(data) == Setter("resize", data)

Scale(data) == Setter("scale", data)

Crop(data) == Setter("crop", data)

Watermark(data) == Setter("watermark", data)

Mask(data) == Setter("mask", data)

Stylize(data) == Setter("stylize", data)

Adjust(data) == Setter("adjust", data)

Auto(data) == Setter("auto", data)

Border(data) == Setter("border", data)

Padding(data) == Setter("padding", data)

Store(data) == Setter("store", data)

Output(data) == Setter("output", data)

Webhook(data) == Setter("webhook", data)

CDN(data) == Setter("cdn", data)

(***************************************************************************)
(* execute                                                                 *)
(***************************************************************************)
\* the fields execute copies into params
ExecuteKeys ==
    {"resize", "scale", "crop", "watermark", "mask", "stylize", "adjust",
     "auto", "border", "padding", "store", "output", "webhook", "response",
     "cdn"}

PMap(bag) == [t |-> "object", s |-> "", m |-> bag.m]

PStr(str) == [t |-> "string", s |-> str, m |-> NoKeys]

\* an execute that injects url whatever the source
ParamsAlwaysUrl(req) ==
    LET keys == {s \in ExecuteKeys : ~req.steps[s].nil} \cup {"url"}
    IN  [k \in keys |-> IF k = "url" THEN PStr(req.location)
                        ELSE PMap(req.steps[k])]

Params(req) ==
    LET keys == {s \in ExecuteKeys : ~req.steps[s].nil}
                    \cup (IF req.source = fetchSource THEN {"url"} ELSE {})
    IN  [k \in keys |-> IF k = "url" THEN PStr(req.location)
                        ELSE PMap(req.steps[k])]

\* json.Marshal of a map: one member per key, in sorted key order
Marshal(params) ==
    LET ks == SelectSeq(KeyOrder, LAMBDA k : k \in DOMAIN params)
    IN  [i \in 1..Len(ks) |-> [key |-> ks[i], value |-> params[ks[i]]]]

IsBinary(req) ==
    /\ ~req.steps["response"].nil
    /\ "mode" \in DOMAIN req.steps["response"].m
    /\ req.steps["response"].m["mode"] = "binary"

\* inFile: "none" while the path source was not opened, then "open", then
\* "closed"; inFlag: the flag it was opened with
NoExec ==
    [err |-> NilErr, resp |-> NoResponse, request |-> NoWire, calls |-> 0,
     inFile |-> "none", inFlag |-> ""]

\* env.fault names the one library call that fails during the method, if any
\* ("open": os.OpenFile of the path source, "copy": io.Copy into the file
\* part, "transport": http.Client.Do, "read": ioutil.ReadAll, "create":
\* os.OpenFile of the output path, "write": io.Copy to the destination);
\* env.tr is what http.Client.Do returns (NoResponse: an error)
\* The body of execute, up to each return statement.
ExecuteBody(req, env) ==
    LET pb == Marshal(Params(req))
        tr == env.tr
        opened == req.source = pathSource
        Do(url, contentType, parts, json, inFile) ==
            [err |-> IF tr.delivered THEN NilErr ELSE Err("TransportError"),
             resp |-> tr,
             request |-> [sent |-> TRUE, method |-> "POST", url |-> url,
                          contentType |-> contentType,
                          binary |-> IsBinary(req),
                          user |-> ClientKey, password |-> "",
                          parts |-> parts, json |-> json],
             calls |-> 1,
             inFile |-> inFile,
             inFlag |-> IF inFile = "none" THEN "" ELSE "O_RDONLY"]
    IN  IF req.source = fetchSource
        THEN Do(<<apiURL, "/fetch">>, "application/json", <<>>, pb, "none")
        ELSE IF req.source = readerSource \/ req.source = pathSource
        THEN IF req.source = pathSource /\ env.fault = "open"
             THEN [NoExec EXCEPT !.err = Err("OpenError")]
             ELSE LET inFile == IF opened THEN "open" ELSE "none"
                      file == IF req.source = readerSource THEN req.reader
                              ELSE DiskBytes
                  IN  IF env.fault = "copy"
                      THEN [NoExec EXCEPT
                                !.err = Err("CopyError"),
                                !.inFile = inFile,
                                !.inFlag = IF opened THEN "O_RDONLY" ELSE ""]
                      ELSE Do(<<apiURL, "/upload">>, "multipart/form-data",
                              <<[name |-> "file", bytes |-> file, json |-> <<>>],
                                [name |-> "data", bytes |-> "", json |-> pb]>>,
                              <<>>, inFile)
        ELSE [NoExec EXCEPT !.err = ErrInvalidSourceType]

\* an execute without its defer fs.Close()
ExecuteWithoutDeferredClose(req, env) == ExecuteBody(req, env)

\* execute: the deferred fs.Close() runs at every return that follows the
\* opening of the file
Execute(req, env) ==
    LET ex == ExecuteBody(req, env)
    IN  [ex EXCEPT !.inFile = IF ex.inFile = "open" THEN "closed"
                              ELSE ex.inFile]

(***************************************************************************)
(* fastjson accessors, and the success validation of the two modes         *)
(***************************************************************************)
NilScalar == [t |-> "nil", n |-> 0, s |-> ""]

\* (*Value).Get(key): nil unless the value is an object that has the key
Get(v, key) ==
    IF v.t = "object" /\ key \in DOMAIN v.o THEN v.o[key] ELSE NilScalar

\* (*Value).Bool() succeeds on true and false only
IsBool(x) == x.t = "true" \/ x.t = "false"

\* (*Value).Int() and (*Value).StringBytes(): the zero value is kept when the
\* accessor fails
IntOr0(x) == IF x.t = "number" THEN x.n ELSE 0

StringOrEmpty(x) == IF x.t = "string" THEN x.s ELSE ""

Resolved(meta, err) == [meta |-> meta, err |-> err]

\* a ToJSON that never copies the code into the error
ResolveJSONWithoutCode(result) ==
    LET value == Get(result, "success")
        codeValue == Get(result, "code")
        messageValue == Get(result, "message")
    IN  IF value.t = "nil" \/ ~IsBool(value)
        THEN Resolved(NilValue, ErrNoSuccess)
        ELSE IF value.t = "false"
        THEN IF codeValue.t = "nil" \/ messageValue.t = "nil"
             THEN Resolved(NilValue, ErrNoSuccess)
             ELSE Resolved(NilValue,
                           OptidashError(0, StringOrEmpty(messageValue)))
        ELSE Resolved(result, NilErr)

\* ToJSON, after the body was parsed into result
ResolveJSON(result) ==
    LET value == Get(result, "success")
        codeValue == Get(result, "code")
        messageValue == Get(result, "message")
    IN  IF value.t = "nil" THEN Resolved(NilValue, ErrNoSuccess)
        ELSE IF ~IsBool(value) THEN Resolved(NilValue, ErrNoSuccess)
        ELSE IF value.t = "false"
        THEN IF codeValue.t = "nil" THEN Resolved(NilValue, ErrNoSuccess)
             ELSE IF messageValue.t = "nil"
             THEN Resolved(NilValue, ErrNoSuccess)
             ELSE Resolved(NilValue,
                           OptidashError(IntOr0(codeValue),
                                         StringOrEmpty(messageValue)))
        ELSE Resolved(result, NilErr)

\* a ToReader that accepts a failure envelope without a message
ResolveMetaWithoutMessageCheck(meta) ==
    LET successValue == Get(meta, "success")
    IN  IF successValue.t = "nil" \/ ~IsBool(successValue)
        THEN Resolved(NilValue, ErrNoSuccess)
        ELSE IF successValue.t = "true"
        THEN Resolved(meta, NilErr)
        ELSE LET codeValue == Get(meta, "code")
                 messageValue == Get(meta, "message")
             IN  IF codeValue.t = "nil"
                 THEN Resolved(NilValue, ErrNoSuccess)
                 ELSE Resolved(NilValue,
                               OptidashError(IntOr0(codeValue),
                                             StringOrEmpty(messageValue)))

\* ToReader, after the X-Optidash-Meta header was parsed into meta
ResolveMeta(meta) ==
    LET successValue == Get(meta, "success")
    IN  IF successValue.t = "nil" \/ ~IsBool(successValue)
        THEN Resolved(NilValue, ErrNoSuccess)
        ELSE IF successValue.t = "true"
        THEN Resolved(meta, NilErr)
        ELSE LET codeValue == Get(meta, "code")
                 messageValue == Get(meta, "message")
             IN  IF codeValue.t = "nil" \/ messageValue.t = "nil"
                 THEN Resolved(NilValue, ErrNoSuccess)
                 ELSE Resolved(NilValue,
                               OptidashError(IntOr0(codeValue),
                                             StringOrEmpty(messageValue)))

(***************************************************************************)
(* Terminal operations.  Each Do... operator is the whole method: it       *)
(* yields the builder after the call and the record of the call.           *)
(***************************************************************************)
Done(req, call) == [req |-> req, call |-> call]

\* the part of a call record that execute decides
Sent(op, ex) ==
    [Call(op) EXCEPT !.calls = ex.calls, !.request = ex.request,
                     !.resp = ex.resp, !.inFile = ex.inFile,
                     !.inFlag = ex.inFlag]

\* ToJSON never closes resp.Body: a delivered body is open at every return
DoToJSON(req, env) ==
    LET ex == Execute(req, env)
        base == [Sent("ToJSON", ex) EXCEPT
                     !.body = IF ex.resp.delivered THEN "open" ELSE "none"]
    IN  IF ex.err # NilErr THEN Done(req, [base EXCEPT !.err = ex.err])
        ELSE IF env.fault = "read" THEN Done(req, [base EXCEPT !.err = Err("ReadError")])
        ELSE IF ~ex.resp.body.ok
        THEN Done(req, [base EXCEPT !.err = Err("ParseError")])
        ELSE LET res == ResolveJSON(ex.resp.body.v)
             IN  Done(req, [base EXCEPT !.meta = res.meta, !.err = res.err])

\* a ToReader that takes a response without X-Optidash-Meta for a response
\* without success
BinarySendRequiringMeta(req, env) ==
    LET req2 == [req EXCEPT !.steps["response"] = BinaryP]
        ex == Execute(req2, env)
        base == Sent("ToReader", ex)
        Fail(err) ==
            Done(req2, [base EXCEPT
                            !.err = err,
                            !.body = IF ex.resp.delivered THEN "closed"
                                     ELSE "none"])
        sm == ex.resp.header
    IN  IF ex.err # NilErr THEN Fail(ex.err)
        ELSE IF sm.raw = "" THEN Fail(ErrNoSuccess)
        ELSE IF ~sm.ok THEN Fail(Err("ParseError"))
        ELSE LET res == ResolveMeta(sm.v)
             IN  IF res.err # NilErr THEN Fail(res.err)
                 ELSE Done(req2, [base EXCEPT !.meta = sm.v,
                                              !.stream = "body",
                                              !.body = "open"])

\* ToReader from the assignment of r.response on: the deferred function
\* closes the body unless succeeded was set
BinarySend(req, env) ==
    LET req2 == [req EXCEPT !.steps["response"] = BinaryP]
        ex == Execute(req2, env)
        base == Sent("ToReader", ex)
        Fail(err) ==
            Done(req2, [base EXCEPT
                            !.err = err,
                            !.body = IF ex.resp.delivered THEN "closed"
                                     ELSE "none"])
        sm == ex.resp.header
    IN  IF ex.err # NilErr THEN Fail(ex.err)
        ELSE IF sm.raw # "" /\ ~sm.ok THEN Fail(Err("ParseError"))
        ELSE LET meta == IF sm.raw # "" THEN sm.v ELSE NilValue
                 res == IF meta.t # "nil" THEN ResolveMeta(meta)
                        ELSE Resolved(NilValue, NilErr)
             IN  IF res.err # NilErr THEN Fail(res.err)
                 ELSE Done(req2, [base EXCEPT !.meta = meta,
                                              !.stream = "body",
                                              !.body = "open"])

\* a ToReader that forgets the check of r.store
ToReaderWithoutStoreCheck(req, env) ==
    IF ~req.steps["webhook"].nil
    THEN Done(req, [Call("ToReader") EXCEPT !.err = ErrBinaryWebhook])
    ELSE BinarySend(req, env)

DoToReader(req, env) ==
    IF ~req.steps["webhook"].nil
    THEN Done(req, [Call("ToReader") EXCEPT !.err = ErrBinaryWebhook])
    ELSE IF ~req.steps["store"].nil
    THEN Done(req, [Call("ToReader") EXCEPT !.err = ErrBinaryStorage])
    ELSE BinarySend(req, env)

\* ToFile: the deferred file.Close() is the only Close of the method
DoToFile(req, env) ==
    LET rd == DoToReader(req, env)
        c == [rd.call EXCEPT !.op = "ToFile", !.stream = "nil"]
    IN  IF c.err # NilErr THEN Done(rd.req, c)
        ELSE IF env.fault = "create"
        THEN Done(rd.req, [c EXCEPT !.meta = NilValue,
                                    !.err = Err("CreateError")])
        ELSE IF env.fault = "write"
        THEN Done(rd.req, [c EXCEPT !.meta = NilValue,
                                    !.err = Err("CopyError"),
                                    !.outFile = "closed"])
        ELSE Done(rd.req, [c EXCEPT !.outFile = "closed",
                                    !.dest = c.resp.body.raw])

\* CopyTo: the writer is the caller's and stays open
DoCopyTo(req, env) ==
    LET rd == DoToReader(req, env)
        c == [rd.call EXCEPT !.op = "CopyTo", !.stream = "nil"]
    IN  IF c.err # NilErr THEN Done(rd.req, c)
        ELSE IF env.fault = "write"
        THEN Done(rd.req, [c EXCEPT !.meta = NilValue,
                                    !.err = Err("CopyError"),
                                    !.writer = "open"])
        ELSE Done(rd.req, [c EXCEPT !.writer = "open",
                                    !.dest = c.resp.body.raw])

\* the environments of one call: R are the responses the transport may
\* deliver, after are the faults that can follow a delivered response
Envs(R, after) ==
    {[fault |-> f, tr |-> NoResponse] : f \in {"open", "copy", "transport"}}
        \cup {[fault |-> f, tr |-> t] : f \in after \cup {"none"}, t \in R}

Terminal(out) ==
    /\ r' = out.req
    /\ last' = out.call
    /\ UNCHANGED panicked

ToJSON(R) ==
    /\ ~panicked
    /\ r.ptr # "none"
    /\ IF r.ptr = "nil"
       THEN Panic("ToJSON")
       ELSE \E env \in Envs(R, {"read"}) : Terminal(DoToJSON(r, env))

ToReader(R) ==
    /\ ~panicked
    /\ r.ptr # "none"
    /\ IF r.ptr = "nil"
       THEN Panic("ToReader")
       ELSE \E env \in Envs(R, {}) : Terminal(DoToReader(r, env))

ToFile(R) ==
    /\ ~panicked
    /\ r.ptr # "none"
    /\ IF r.ptr = "nil"
       THEN Panic("ToFile")
       ELSE \E env \in Envs(R, {"create", "write"}) :
                Terminal(DoToFile(r, env))

CopyTo(R) ==
    /\ ~panicked
    /\ r.ptr # "none"
    /\ IF r.ptr = "nil"
       THEN Panic("CopyTo")
       ELSE \E env \in Envs(R, {"write"}) : Terminal(DoCopyTo(r, env))

(***************************************************************************)
(* The responses of the environment                                        *)
(***************************************************************************)
Response(header, body) ==
    [delivered |-> TRUE, header |-> header, body |-> body]

OkText == JsonText(JObject([success |-> JTrue, foo |-> JNum(1)]))

\* one JSON-mode and one binary-mode answer of a healthy service
FewResponses == {Response(EmptyText, OkText), Response(OkText, Image)}

EnvelopeKeys == {"success", "code", "message", "foo"}

EnvelopeFields ==
    [success : {NilScalar, JTrue, JFalse, JStr("yes")},
     code : {NilScalar, JNum(42), JStr("42")},
     message : {NilScalar, JStr("bad input"), JNum(7)},
     foo : {NilScalar, JNum(1)}]

Envelope(f) ==
    JObject([k \in {x \in EnvelopeKeys : f[x].t # "nil"} |-> f[k]])

\* texts a service may put in a body or in X-Optidash-Meta
Texts ==
    {JsonText(Envelope(f)) : f \in EnvelopeFields}
        \cup {JsonText(JNull), JsonText(JArray), Garbage}

AllResponses ==
    {Response(EmptyText, b) : b \in Texts \cup {EmptyText}}
        \cup {Response(h, Image) : h \in Texts \cup {EmptyText}}

(***************************************************************************)
(* Specifications                                                          *)
(***************************************************************************)
Init ==
    /\ r = NoRequest
    /\ last = NoCall
    /\ panicked = FALSE

Next ==
    \/ \E input \in Inputs : Upload(input)
    \/ \E url \in Urls : Fetch(url)
    \/ \E data \in Bags : Optimize(data)
    \/ \E data \in Bags : Flip(data)
    \/ \E data \in Bags : Resize(data)
    \/ \E data \in Bags : Scale(data)
    \/ \E data \in Bags : Crop(data)
    \/ \E data \in Bags : Watermark(data)
    \/ \E data \in Bags : Mask(data)
    \/ \E data \in Bags : Stylize(data)
    \/ \E data \in Bags : Adjust(data)
    \/ \E data \in Bags : Auto(data)
    \/ \E data \in Bags : Border(data)
    \/ \E data \in Bags : Padding(data)
    \/ \E data \in Bags : Store(data)
    \/ \E data \in Bags : Output(data)
    \/ \E data \in Bags : Webhook(data)
    \/ \E data \in Bags : CDN(data)
    \/ ToJSON(FewResponses)
    \/ ToReader(FewResponses)
    \/ ToFile(FewResponses)
    \/ CopyTo(FewResponses)

Spec == Init /\ [][Next]_vars

\* One terminal call on a builder, against every response.  The builders are
\* those a caller gets from a factory, with or without Webhook and Store set.
ResolverBuilders ==
    {SetStep(SetStep(b, "webhook", w), "store", s) :
        b \in {NewFetch(url) : url \in Urls}
                 \cup {NewUpload(i) : i \in {x \in Inputs : x.type # "int"}},
        w \in {NilP, BagA},
        s \in {NilP, BagB}}

InitResolver ==
    /\ r \in ResolverBuilders
    /\ last = NoCall
    /\ panicked = FALSE

NextResolver ==
    \/ last.op = "none" /\ ToJSON(AllResponses)
    \/ last.op = "none" /\ ToReader(AllResponses)
    \/ last.op = "none" /\ ToFile(AllResponses)
    \/ last.op = "none" /\ CopyTo(AllResponses)

SpecResolver == InitResolver /\ [][NextResolver]_vars

(***************************************************************************)
(* Properties                                                              *)
(***************************************************************************)
TerminalOps == {"ToJSON", "ToReader", "ToFile", "CopyTo"}

BinaryOps == {"ToReader", "ToFile", "CopyTo"}

\* the JSON payload of a transmitted request: the whole body of a JSON
\* request, the part named data of a multipart one
Payload(w) ==
    IF w.parts = <<>> THEN w.json
    ELSE LET i == CHOOSE k \in 1..Len(w.parts) : w.parts[k].name = "data"
         IN  w.parts[i].json

PayloadHas(pb, key) == \E i \in 1..Len(pb) : pb[i].key = key

PayloadValue(pb, key) ==
    LET i == CHOOSE k \in 1..Len(pb) : pb[k].key = key IN pb[i].value

\* C1: whenever a terminal operation has transmitted a request, every step
\* of the closed set whose bag is non-nil on the builder is a key of the
\* JSON payload, with that bag as its value.
C1_EverySetStepIsSerialized ==
    last.request.sent =>
        \A s \in StepNames :
            ~r.steps[s].nil =>
                /\ PayloadHas(Payload(last.request), s)
                /\ PayloadValue(Payload(last.request), s) = PMap(r.steps[s])

\* C2: a binary-mode terminal operation on a builder whose webhook or store
\* is set returns ErrBinaryWebhook (webhook set) or else ErrBinaryStorage,
\* with nil metadata and nil stream, and does not invoke the transport.
C2_BinaryModeRejectsWebhookAndStore ==
    (last.op \in BinaryOps /\ r.ptr = "req"
        /\ (~r.steps["webhook"].nil \/ ~r.steps["store"].nil)) =>
        /\ last.err = IF ~r.steps["webhook"].nil THEN ErrBinaryWebhook
                      ELSE ErrBinaryStorage
        /\ last.meta = NilValue
        /\ last.stream = "nil"
        /\ last.calls = 0
        /\ ~last.request.sent
        /\ last.outFile = "none"

\* C2 witness: CopyTo was called with only store set and was rejected.
C2_Witness ==
    /\ last.op = "CopyTo"
    /\ r.steps["webhook"].nil
    /\ ~r.steps["store"].nil
    /\ last.err = ErrBinaryStorage

\* C3: when ToJSON or ToReader returns after the transport delivered a
\* response, the response body is closed, except when ToReader returns it
\* to the caller as the stream of a successful call.
C3_BodyClosedBeforeReturn ==
    (last.op \in {"ToJSON", "ToReader"} /\ last.resp.delivered) =>
        \/ last.body = "closed"
        \/ /\ last.op = "ToReader"
           /\ last.err = NilErr
           /\ last.stream = "body"
           /\ last.body = "open"

\* C4: when ToFile or CopyTo returns after the transport delivered a
\* response, the response stream is closed, the caller's writer is not
\* closed, and the output file ToFile opened is closed.
C4_ConvenienceCallsCloseTheStream ==
    (last.op \in {"ToFile", "CopyTo"} /\ last.resp.delivered) =>
        /\ last.body = "closed"
        /\ last.writer # "closed"
        /\ last.outFile # "open"

\* C5: no transmitted request carries the X-Optidash-Binary header while
\* webhook or store is set on the builder that sent it.
C5_NoBinaryRequestWithWebhookOrStore ==
    (last.request.sent /\ last.request.binary) =>
        (r.steps["webhook"].nil /\ r.steps["store"].nil)

\* C6: when ToJSON has read a body that is an object, success = false with
\* an integer code and a string message gives nil metadata and an
\* OptidashError with that code and message; success = true gives the
\* parsed tree itself and a nil error.
C6_ToJSONFollowsTheSuccessFlag ==
    (last.op = "ToJSON" /\ last.resp.delivered /\ last.err.kind # "ReadError"
        /\ last.resp.body.ok /\ last.resp.body.v.t = "object") =>
        LET o == last.resp.body.v.o
            Has(k) == k \in DOMAIN o
        IN  /\ (Has("success") /\ o["success"] = JFalse
                    /\ Has("code") /\ o["code"].t = "number"
                    /\ Has("message") /\ o["message"].t = "string") =>
                   /\ last.meta = NilValue
                   /\ last.err = [kind |-> "OptidashError",
                                  Code |-> o["code"].n,
                                  Message |-> o["message"].s]
            /\ (Has("success") /\ o["success"] = JTrue) =>
                   /\ last.meta = last.resp.body.v
                   /\ last.err = NilErr

\* C6 witness: ToJSON turned {"success": false, "code": 42, "message":
\* "bad input"} into the OptidashError [42] bad input.
C6_Witness ==
    /\ last.op = "ToJSON"
    /\ last.resp.delivered
    /\ last.resp.body.ok
    /\ Get(last.resp.body.v, "success") = JFalse
    /\ last.err = [kind |-> "OptidashError", Code |-> 42,
                   Message |-> "bad input"]

\* C7: a builder made from an input that is neither a stream nor a path
\* never makes a call crash, and its terminal operations return
\* ErrInvalidSourceType without invoking the transport.
C7_InvalidSourceIsReported ==
    r.ptr = "nil" =>
        /\ ~panicked
        /\ last.op \in TerminalOps =>
               (last.err = ErrInvalidSourceType /\ last.calls = 0)

\* C8: a transmitted request matches the source: stream and path sources
\* POST to apiURL/upload a multipart body of the parts file and data, in
\* that order, whose payload has no url key; a fetch source POSTs to
\* apiURL/fetch an application/json body that is the payload, with url equal
\* to the URL given to Fetch.
C8_RequestMatchesSource ==
    last.request.sent =>
        LET w == last.request
        IN  /\ w.method = "POST"
            /\ (r.source = readerSource \/ r.source = pathSource) =>
                   /\ w.url = <<apiURL, "/upload">>
                   /\ w.contentType = "multipart/form-data"
                   /\ Len(w.parts) = 2
                   /\ w.parts[1].name = "file"
                   /\ w.parts[1].bytes = IF r.source = readerSource
                                         THEN r.reader ELSE DiskBytes
                   /\ w.parts[2].name = "data"
                   /\ w.json = <<>>
                   /\ ~PayloadHas(w.parts[2].json, "url")
            /\ r.source = fetchSource =>
                   /\ w.url = <<apiURL, "/fetch">>
                   /\ w.contentType = "application/json"
                   /\ w.parts = <<>>
                   /\ PayloadHas(w.json, "url")
                   /\ PayloadValue(w.json, "url") = PStr(r.location)

\* C8 witness: a path source with a step set was uploaded.
C8_Witness ==
    /\ last.request.sent
    /\ r.source = pathSource
    /\ SetCount(r.steps) > 0
    /\ Len(last.request.parts) = 2

\* C9: a setter returns its receiver and changes the bag of its own step
\* only; and when a setter has replaced a bag A by another bag B and the
\* builder is sent next, the payload carries B under that step's key.
C9_LastBagWins ==
    [][/\ (last'.op = "set" /\ r.ptr = "req") =>
              /\ last'.ret = "self"
              /\ r' = [r EXCEPT !.steps[last'.step] = last'.bag]
       /\ (last.op = "set" /\ ~last.old.nil /\ last.old # last.bag
               /\ last'.request.sent) =>
              /\ PayloadHas(Payload(last'.request), last.step)
              /\ PayloadValue(Payload(last'.request), last.step)
                     = PMap(last.bag)]_vars

\* C10: for a non-empty X-Optidash-Meta header E, ToReader returns the error
\* and, on success, the metadata that ToJSON returns for a response whose
\* body is E.
C10_ToReaderClassifiesLikeToJSON ==
    (last.op = "ToReader" /\ last.resp.delivered
        /\ last.resp.header.raw # "") =>
        LET E == last.resp.header
            json == DoToJSON(r, [fault |-> "none",
                                 tr |-> Response(EmptyText, E)]).call
        IN  /\ last.err = json.err
            /\ last.meta = json.meta

\* C10 witness: ToReader turned a failure envelope in the header into the
\* OptidashError [42] bad input.
C10_Witness ==
    /\ last.op = "ToReader"
    /\ last.resp.delivered
    /\ Get(last.resp.header.v, "success") = JFalse
    /\ last.err = [kind |-> "OptidashError", Code |-> 42,
                   Message |-> "bad input"]
    /\ last.body = "closed"

\* C11: a path source is not opened by Upload or by a setter, and Upload
\* returns a builder whether or not the file exists.  A terminal operation
\* opens it read-only inside the send and has closed it when it returns; when
\* the file cannot be opened the operation returns that error and transmits
\* nothing.
C11_PathFileLivesInsideTheSend ==
    (r.ptr = "req" /\ r.source = pathSource) =>
        /\ last.op \in {"Upload", "set"} =>
               (last.inFile = "none" /\ last.ret # "nil")
        /\ last.op \in TerminalOps =>
               /\ last.inFile # "open"
               /\ last.inFile = "closed" => last.inFlag = "O_RDONLY"
               /\ last.calls = 1 => last.inFile = "closed"
               /\ last.err.kind = "OpenError" =>
                      /\ last.inFile = "none"
                      /\ last.calls = 0
                      /\ ~last.request.sent
                      /\ last.meta = NilValue
                      /\ last.stream = "nil"

\* C11 witness: the send of a path source opened the file, the transport
\* failed, and the file was closed when ToJSON returned.
C11_Witness ==
    /\ r.source = pathSource
    /\ last.op = "ToJSON"
    /\ last.err.kind = "TransportError"
    /\ last.inFile = "closed"

\* C12: when the transport delivers a binary-mode response without (or with
\* an empty) X-Optidash-Meta header, ToReader returns nil metadata, the open
\* body as the stream and a nil error; ToFile and CopyTo, unless the
\* destination fails, write that body to the destination and return nil
\* metadata and a nil error, whatever the body is.
C12_NoMetaHeaderMeansSuccess ==
    (last.op \in BinaryOps /\ last.resp.delivered
        /\ last.resp.header.raw = "") =>
        /\ last.meta = NilValue
        /\ last.body = "open"
        /\ last.op = "ToReader" =>
               (last.err = NilErr /\ last.stream = "body")
        /\ (last.op # "ToReader"
                /\ last.err.kind \notin {"CreateError", "CopyError"}) =>
               (last.err = NilErr /\ last.dest = last.resp.body.raw)

\* C12 witness: ToFile wrote a body that is itself a failure envelope to the
\* file and reported success, the response having no X-Optidash-Meta.
C12_Witness ==
    /\ last.op = "ToFile"
    /\ last.resp.delivered
    /\ last.resp.header.raw = ""
    /\ Get(last.resp.body.v, "success") = JFalse
    /\ last.err = NilErr
    /\ last.meta = NilValue
    /\ last.outFile = "closed"
    /\ last.dest = last.resp.body.raw

====
